---- MODULE Spec2Model ----
(***************************************************************************)
(* A model of package rbmap: a red-black tree map over a heap of Node      *)
(* cells linked by left, right and parent pointers.  Every public method   *)
(* of Map is one action; the private methods are operators over a machine  *)
(* state m = [nodes, root, size, used, panic] and are written statement by *)
(* statement after rbmap/rbtree.go and the Node file.                      *)
(***************************************************************************)
EXTENDS Integers, Sequences, FiniteSets, TLC

\* ---------------------------------------------------------------- bounds

\* Keys are the integers 1..MaxKey, ordered by the test's comparator.
MaxKey == 6

\* Add of a new key is taken only while size < MaxSize: Delete never
\* lowers size, so without the cap the counter grows without bound.
MaxSize == 6

Keys == 1..MaxKey

\* The keys of the client that stores arbitrary values (SpecVal).
MaxValKey == 3

ValKeys == 1..MaxValKey

\* Two distinguishable values: enough to tell an overwrite from a no-op.
Vals == {1, 2}

\* Heap cells.  A map of k live nodes reaches 2k+1 cells (every live node
\* owns two children, the outermost ones sentinels).
MaxNodes == 2 * MaxKey + 1

NodeIds == 1..MaxNodes

\* The nil pointer, and the nil interface value of an unset key or val.
Nil == 0

RED == TRUE

BLACK == FALSE

ErrNodeAlreadyExists == "node already exists"

ErrNodeNotExists == "node not exists"

\* ------------------------------------------------------------------ Node

\* newLeaf(): a cell with nil children, nil parent, no key, no val, BLACK.
LeafCell == [key |-> Nil, val |-> Nil, left |-> Nil, right |-> Nil,
             parent |-> Nil, color |-> BLACK]

isLeaf(n, x) == n[x].left = Nil /\ n[x].right = Nil

isRoot(n, x) == n[x].parent = Nil

isRed(n, x) == n[x].color

isBlack(n, x) == ~n[x].color

\* n == n.parent.left (the caller has a non-nil parent)
isLeft(n, x) == x = n[n[x].parent].left

isRight(n, x) == x = n[n[x].parent].right

getGrandParent(n, x) == n[n[x].parent].parent

getSibling(n, x) == IF isLeft(n, x) THEN n[n[x].parent].right
                    ELSE n[n[x].parent].left

\* A mutant of getUncle: the sibling of the node itself.
getUncleOfSelf(n, x) == getSibling(n, x)

getUncle(n, x) == getSibling(n, n[x].parent)

\* ------------------------------------------------------------ the machine

\* A nil-pointer dereference: the goroutine panics where it stands and
\* executes nothing further.
Panic(m) == [m EXCEPT !.panic = TRUE]

\* The least cell not in use; newLeaf() takes it.
FreeCell(m) == CHOOSE x \in NodeIds \ m.used : \A y \in NodeIds \ m.used : x <= y

\* 0: a == b, 1: a < b, 2: a > b
compareFunc(a, b) == IF a < b THEN 1 ELSE IF a > b THEN 2 ELSE 0

\* findNode: Nil stands for a descent through a nil child (a panic).
RECURSIVE findNode(_, _, _)
findNode(n, node, key) ==
  IF node = Nil THEN Nil
  ELSE IF isLeaf(n, node) THEN node
  ELSE LET c == compareFunc(key, n[node].key)
       IN IF c = 1 THEN findNode(n, n[node].left, key)
          ELSE IF c = 2 THEN findNode(n, n[node].right, key)
          ELSE node

\* The number of parent links from x up to the node that has no parent.
RECURSIVE Depth(_, _, _)
Depth(n, x, fuel) ==
  IF fuel = 0 \/ n[x].parent = Nil THEN 0
  ELSE 1 + Depth(n, n[x].parent, fuel - 1)

\* A call of a fixup as the machine records it: the function, the branch
\* it takes, and the depth of the node it is called on.
Called(m, fn, branch, node) ==
  [m EXCEPT !.calls = Append(@, [fn |-> fn, branch |-> branch,
                                 depth |-> Depth(m.nodes, node, MaxNodes)])]

\* A rotation as the machine records it: its direction, and whether the
\* child that is to rise was a live node when the rotation was called.
Rotation(dir, n, child) ==
  [dir |-> dir, live |-> child # Nil /\ ~isLeaf(n, child)]

\* A mutant of rotateLeft: a rotation at the root leaves m.root where it was.
rotateLeftKeepsRoot(m, node) ==
  IF m.panic THEN m
  ELSE
  LET n0 == m.nodes
      rightChild == n0[node].right
      parent == n0[node].parent
      m1 == IF parent = Nil THEN m
            ELSE IF isLeft(n0, node)
                 THEN [m EXCEPT !.nodes[parent].left = rightChild]
                 ELSE [m EXCEPT !.nodes[parent].right = rightChild]
  IN IF rightChild = Nil THEN Panic(m1)
     ELSE
     LET m2 == [m1 EXCEPT !.nodes[rightChild].parent = parent,
                          !.nodes[node].parent = rightChild]
         moved == m2.nodes[rightChild].left
         m3 == [m2 EXCEPT !.nodes[node].right = moved]
     IN IF moved = Nil THEN Panic(m3)
        ELSE [m3 EXCEPT !.nodes[moved].parent = node,
                        !.nodes[rightChild].left = node]

rotateLeft(m, node) ==
  IF m.panic THEN m
  ELSE
  LET n0 == m.nodes
      rightChild == n0[node].right
      parent == n0[node].parent
      m0 == [m EXCEPT !.rots = @ \cup {Rotation("left", n0, rightChild)}]
      m1 == IF parent = Nil THEN [m0 EXCEPT !.root = rightChild]
            ELSE IF isLeft(n0, node)
                 THEN [m0 EXCEPT !.nodes[parent].left = rightChild]
                 ELSE [m0 EXCEPT !.nodes[parent].right = rightChild]
  IN IF rightChild = Nil THEN Panic(m1)
     ELSE
     LET m2 == [m1 EXCEPT !.nodes[rightChild].parent = parent,
                          !.nodes[node].parent = rightChild]
         moved == m2.nodes[rightChild].left
         m3 == [m2 EXCEPT !.nodes[node].right = moved]
     IN IF moved = Nil THEN Panic(m3)
        ELSE [m3 EXCEPT !.nodes[moved].parent = node,
                        !.nodes[rightChild].left = node]

rotateRight(m, node) ==
  IF m.panic THEN m
  ELSE
  LET n0 == m.nodes
      leftChild == n0[node].left
      parent == n0[node].parent
      m0 == [m EXCEPT !.rots = @ \cup {Rotation("right", n0, leftChild)}]
      m1 == IF parent = Nil THEN [m0 EXCEPT !.root = leftChild]
            ELSE IF isLeft(n0, node)
                 THEN [m0 EXCEPT !.nodes[parent].left = leftChild]
                 ELSE [m0 EXCEPT !.nodes[parent].right = leftChild]
  IN IF leftChild = Nil THEN Panic(m1)
     ELSE
     LET m2 == [m1 EXCEPT !.nodes[leftChild].parent = parent,
                          !.nodes[node].parent = leftChild]
         moved == m2.nodes[leftChild].right
         m3 == [m2 EXCEPT !.nodes[node].left = moved]
     IN IF moved = Nil THEN Panic(m3)
        ELSE [m3 EXCEPT !.nodes[moved].parent = node,
                        !.nodes[leftChild].right = node]

\* insertSort: the fixup after an insertion at node.
RECURSIVE insertSort(_, _)
\* A mutant of insertSort: the black-uncle case is left as it is found,
\* without recolouring or rotation.
insertSortNoRotation(m, node) ==
  IF m.panic THEN m
  ELSE
  LET n == m.nodes
      parent == n[node].parent
  IN IF isRoot(n, node)
     THEN [m EXCEPT !.root = node, !.nodes[node].color = BLACK]
     ELSE IF ~isRed(n, parent) THEN m
     ELSE IF getGrandParent(n, node) = Nil \/ getUncle(n, node) = Nil
          THEN Panic(m)
     ELSE
     LET uncle == getUncle(n, node)
         grandParent == getGrandParent(n, node)
     IN IF isRed(n, uncle)
        THEN insertSort([m EXCEPT !.nodes[uncle].color = BLACK,
                                  !.nodes[parent].color = BLACK,
                                  !.nodes[grandParent].color = RED],
                        grandParent)
        ELSE m

insertSort(m, node) ==
  IF m.panic THEN m
  ELSE
  LET n == m.nodes
      parent == n[node].parent
      mc(branch) == Called(m, "insertSort", branch, node)
  IN IF isRoot(n, node)
     THEN [mc("root") EXCEPT !.root = node, !.nodes[node].color = BLACK]
     ELSE IF ~isRed(n, parent) THEN mc("blackParent")
     ELSE IF getGrandParent(n, node) = Nil \/ getUncle(n, node) = Nil
          THEN Panic(m)
     ELSE
     LET uncle == getUncle(n, node)
         grandParent == getGrandParent(n, node)
     IN IF isRed(n, uncle)
        THEN insertSort([mc("redUncle") EXCEPT
                           !.nodes[uncle].color = BLACK,
                           !.nodes[parent].color = BLACK,
                           !.nodes[grandParent].color = RED],
                        grandParent)
        ELSE
        LET left == isLeft(n, node)
            isParentLeft == isLeft(n, parent)
        IN IF left /\ isParentLeft
           THEN rotateRight([mc("blackUncle") EXCEPT
                               !.nodes[parent].color = BLACK,
                               !.nodes[grandParent].color = RED],
                            grandParent)
           ELSE IF left /\ ~isParentLeft
           THEN rotateLeft(rotateRight(
                             [mc("blackUncle") EXCEPT
                                !.nodes[node].color = BLACK,
                                !.nodes[grandParent].color = RED],
                             parent),
                           grandParent)
           ELSE IF ~left /\ isParentLeft
           THEN rotateRight(rotateLeft(
                              [mc("blackUncle") EXCEPT
                                 !.nodes[node].color = BLACK,
                                 !.nodes[grandParent].color = RED],
                              parent),
                            grandParent)
           ELSE rotateLeft([mc("blackUncle") EXCEPT
                              !.nodes[parent].color = BLACK,
                              !.nodes[grandParent].color = RED],
                           grandParent)

\* A mutant of insertNode: node.right.parent = node is forgotten.
insertNodeRightUnlinked(m, node, key, val) ==
  LET l == FreeCell(m)
      m1 == [m EXCEPT !.used = @ \cup {l}, !.nodes[l] = LeafCell]
      r == FreeCell(m1)
      m2 == [m1 EXCEPT !.used = @ \cup {r}, !.nodes[r] = LeafCell]
  IN insertSort([m2 EXCEPT !.nodes[node].key = key,
                           !.nodes[node].val = val,
                           !.nodes[node].color = RED,
                           !.nodes[node].left = l,
                           !.nodes[node].right = r,
                           !.nodes[l].parent = node],
                node)

\* insertNode: the sentinel node becomes a RED live node with two fresh
\* sentinel children, then the fixup runs.
insertNode(m, node, key, val) ==
  LET l == FreeCell(m)
      m1 == [m EXCEPT !.used = @ \cup {l}, !.nodes[l] = LeafCell]
      r == FreeCell(m1)
      m2 == [m1 EXCEPT !.used = @ \cup {r}, !.nodes[r] = LeafCell]
  IN insertSort([m2 EXCEPT !.nodes[node].key = key,
                           !.nodes[node].val = val,
                           !.nodes[node].color = RED,
                           !.nodes[node].left = l,
                           !.nodes[node].right = r,
                           !.nodes[l].parent = node,
                           !.nodes[r].parent = node],
                node)

\* A mutant of lines 286-290: the sibling is rotated to the left.
eraseSortNearLeftToLeft(m, node) ==
  LET n == m.nodes
      sibling == getSibling(n, node)
  IN IF m.panic THEN m
     ELSE IF ~isLeft(n, node) THEN m
     ELSE IF n[sibling].right = Nil THEN Panic(m)
     ELSE IF isBlack(n, n[sibling].right)
     THEN rotateLeft([m EXCEPT !.nodes[sibling].color = RED,
                               !.nodes[n[sibling].left].color = BLACK],
                     sibling)
     ELSE m

\* eraseSort, lines 286-290: node is a left child and the sibling's far
\* (right) child is BLACK, so its near child is RED: rotate the sibling.
eraseSortNearLeft(m, node) ==
  LET n == m.nodes
      sibling == getSibling(n, node)
  IN IF m.panic THEN m
     ELSE IF ~isLeft(n, node) THEN m
     ELSE IF n[sibling].right = Nil THEN Panic(m)
     ELSE IF isBlack(n, n[sibling].right)
     THEN rotateRight([m EXCEPT !.nodes[sibling].color = RED,
                                !.nodes[n[sibling].left].color = BLACK],
                      sibling)
     ELSE m

\* eraseSort, lines 291-295: the mirror image for a right child.
eraseSortNearRight(m, node) ==
  LET n == m.nodes
      sibling == getSibling(n, node)
  IN IF m.panic THEN m
     ELSE IF ~isRight(n, node) THEN m
     ELSE IF n[sibling].left = Nil THEN Panic(m)
     ELSE IF isBlack(n, n[sibling].left)
     THEN IF n[sibling].right = Nil THEN Panic(m)
          ELSE rotateLeft([m EXCEPT !.nodes[sibling].color = RED,
                                    !.nodes[n[sibling].right].color = BLACK],
                          sibling)
     ELSE m

\* eraseSort, lines 296-303: the sibling's far child is RED; recolour and
\* rotate the parent towards node.  The fixup ends here.
eraseSortFar(m, node) ==
  LET n == m.nodes
      sibling == getSibling(n, node)
      parent == n[node].parent
      far == IF isLeft(n, node) THEN n[sibling].right ELSE n[sibling].left
      m1 == [m EXCEPT !.nodes[sibling].color = n[parent].color,
                      !.nodes[parent].color = BLACK]
  IN IF m.panic THEN m
     ELSE IF far = Nil THEN Panic(m1)
     ELSE IF isLeft(n, node)
     THEN rotateLeft([m1 EXCEPT !.nodes[far].color = BLACK], parent)
     ELSE rotateRight([m1 EXCEPT !.nodes[far].color = BLACK], parent)

\* A mutant of the red-sibling case: the parent is rotated away from node.
eraseSortRedSiblingAway(m, node) ==
  LET n == m.nodes
      sibling == getSibling(n, node)
      parent == n[node].parent
      m1 == [m EXCEPT !.nodes[sibling].color = BLACK,
                      !.nodes[parent].color = RED]
  IN IF isLeft(n, node) THEN rotateRight(m1, parent)
     ELSE rotateLeft(m1, parent)

\* eraseSort, lines 266-276: the sibling is RED; recolour and rotate the
\* parent towards node, which gives node a BLACK sibling.
eraseSortRedSibling(m, node) ==
  LET n == m.nodes
      sibling == getSibling(n, node)
      parent == n[node].parent
      m1 == [m EXCEPT !.nodes[sibling].color = BLACK,
                      !.nodes[parent].color = RED]
  IN IF isLeft(n, node) THEN rotateLeft(m1, parent)
     ELSE rotateRight(m1, parent)

\* eraseSort: the fixup after a BLACK node was spliced out, at the node
\* that took its place.
RECURSIVE eraseSort(_, _)
\* A mutant of eraseSort: the red-sibling case recolours and recurses
\* without rotating the parent.
eraseSortNoRotation(m, node) ==
  IF m.panic THEN m
  ELSE
  LET n == m.nodes
      parent == n[node].parent
      mc(branch) == Called(m, "eraseSort", branch, node)
  IN IF isRoot(n, node)
     THEN [mc("root") EXCEPT !.nodes[node].color = BLACK, !.root = node]
     ELSE IF isRed(n, node)
     THEN [mc("red") EXCEPT !.nodes[node].color = BLACK]
     ELSE
     LET sibling == getSibling(n, node)
     IN IF sibling = Nil THEN Panic(m)
        ELSE IF isRed(n, sibling)
        THEN eraseSort([mc("redSibling") EXCEPT
                          !.nodes[sibling].color = BLACK,
                          !.nodes[parent].color = RED], node)
        ELSE IF n[sibling].left = Nil THEN Panic(m)
        ELSE IF isBlack(n, n[sibling].left) /\ n[sibling].right = Nil
        THEN Panic(m)
        ELSE IF isBlack(n, n[sibling].left) /\ isBlack(n, n[sibling].right)
        THEN eraseSort([mc("blackNephews") EXCEPT
                          !.nodes[sibling].color = RED], parent)
        ELSE eraseSortFar(
               eraseSortNearRight(eraseSortNearLeft(mc("redNephew"), node),
                                  node), node)

eraseSort(m, node) ==
  IF m.panic THEN m
  ELSE
  LET n == m.nodes
      parent == n[node].parent
      mc(branch) == Called(m, "eraseSort", branch, node)
  IN IF isRoot(n, node)
     THEN [mc("root") EXCEPT !.nodes[node].color = BLACK, !.root = node]
     ELSE IF isRed(n, node)
     THEN [mc("red") EXCEPT !.nodes[node].color = BLACK]
     ELSE
     LET sibling == getSibling(n, node)
     IN IF sibling = Nil THEN Panic(m)
        ELSE IF isRed(n, sibling)
        THEN eraseSort(eraseSortRedSibling(mc("redSibling"), node), node)
        ELSE IF n[sibling].left = Nil THEN Panic(m)
        ELSE IF isBlack(n, n[sibling].left) /\ n[sibling].right = Nil
        THEN Panic(m)
        ELSE IF isBlack(n, n[sibling].left) /\ isBlack(n, n[sibling].right)
        THEN eraseSort([mc("blackNephews") EXCEPT
                          !.nodes[sibling].color = RED], parent)
        ELSE eraseSortFar(
               eraseSortNearRight(eraseSortNearLeft(mc("redNephew"), node),
                                  node), node)

\* getLeftMostChild's loop: walk right from leftChild to a sentinel.
RECURSIVE rightmostLeaf(_, _)
\* A mutant of getLeftMostChild's loop: it walks left, as the name says.
leftmostLeaf(n, leftChild) ==
  IF leftChild = Nil THEN Nil
  ELSE IF isLeaf(n, leftChild) THEN leftChild
  ELSE rightmostLeaf(n, n[leftChild].left)

rightmostLeaf(n, leftChild) ==
  IF leftChild = Nil THEN Nil
  ELSE IF isLeaf(n, leftChild) THEN leftChild
  ELSE rightmostLeaf(n, n[leftChild].right)

\* A mutant of getLeftMostChild: the loop is forgotten, the left child is
\* returned.
getLeftChild(n, node) == n[node].left

\* getLeftMostChild: the parent of the sentinel the loop stops at (Nil
\* when the loop walks through a nil pointer).
getLeftMostChild(n, node) ==
  LET leaf == rightmostLeaf(n, n[node].left)
  IN IF leaf = Nil THEN Nil ELSE n[leaf].parent

\* A mutant of the splice: the fixup after a BLACK node is forgotten.
SpliceNoFixup(m, node, child) ==
  LET n == m.nodes
      parent == n[node].parent
  IN IF child = Nil THEN Panic(m)
     ELSE
     LET m1 == [m EXCEPT !.nodes[child].parent = parent]
     IN IF parent = Nil THEN [m1 EXCEPT !.root = child]
        ELSE IF isLeft(m1.nodes, node)
             THEN [m1 EXCEPT !.nodes[parent].left = child]
             ELSE [m1 EXCEPT !.nodes[parent].right = child]

\* eraseNode's two splice branches: child takes node's place.
Splice(m, node, child) ==
  LET n == m.nodes
      parent == n[node].parent
  IN IF child = Nil THEN Panic(m)
     ELSE
     LET m1 == [m EXCEPT !.nodes[child].parent = parent]
         m2 == IF parent = Nil THEN m1
               ELSE IF isLeft(m1.nodes, node)
                    THEN [m1 EXCEPT !.nodes[parent].left = child]
                    ELSE [m1 EXCEPT !.nodes[parent].right = child]
     IN IF isBlack(n, node) THEN eraseSort(m2, child) ELSE m2

RECURSIVE eraseNode(_, _)
\* A mutant of eraseNode: the predecessor's key is copied, its val is not.
eraseNodeKeyOnly(m, node) ==
  IF m.panic THEN m
  ELSE
  LET n == m.nodes
  IN IF n[node].left = Nil THEN Panic(m)
     ELSE IF isLeaf(n, n[node].left) THEN Splice(m, node, n[node].right)
     ELSE IF n[node].right = Nil THEN Panic(m)
     ELSE IF isLeaf(n, n[node].right) THEN Splice(m, node, n[node].left)
     ELSE
     LET leftMostChild == getLeftMostChild(n, node)
     IN IF leftMostChild = Nil THEN Panic(m)
        ELSE eraseNode([m EXCEPT !.nodes[node].key = n[leftMostChild].key],
                       leftMostChild)

\* A mutant of eraseNode: nothing is copied, the predecessor is deleted.
eraseNodeNoCopy(m, node) ==
  IF m.panic THEN m
  ELSE
  LET n == m.nodes
  IN IF n[node].left = Nil THEN Panic(m)
     ELSE IF isLeaf(n, n[node].left) THEN Splice(m, node, n[node].right)
     ELSE IF n[node].right = Nil THEN Panic(m)
     ELSE IF isLeaf(n, n[node].right) THEN Splice(m, node, n[node].left)
     ELSE
     LET leftMostChild == getLeftMostChild(n, node)
     IN IF leftMostChild = Nil THEN Panic(m)
        ELSE eraseNode(m, leftMostChild)

eraseNode(m, node) ==
  IF m.panic THEN m
  ELSE
  LET n == m.nodes
  IN IF n[node].left = Nil THEN Panic(m)
     ELSE IF isLeaf(n, n[node].left) THEN Splice(m, node, n[node].right)
     ELSE IF n[node].right = Nil THEN Panic(m)
     ELSE IF isLeaf(n, n[node].right) THEN Splice(m, node, n[node].left)
     ELSE
     LET leftMostChild == getLeftMostChild(n, node)
     IN IF leftMostChild = Nil THEN Panic(m)
        ELSE eraseNode([m EXCEPT !.nodes[node].key = n[leftMostChild].key,
                                 !.nodes[node].val = n[leftMostChild].val],
                       leftMostChild)

\* ------------------------------------------------------- heap addresses

\* The program compares pointers only for equality, so a state is kept up
\* to a renaming of its cells: after every operation the cells still
\* referenced are renumbered in pre-order from the root and the cells the
\* garbage collector would reclaim are returned to the free pool.

RECURSIVE Preorder(_, _, _)
Preorder(n, x, fuel) ==
  IF x = Nil \/ fuel = 0 THEN <<>>
  ELSE <<x>> \o Preorder(n, n[x].left, fuel - 1)
             \o Preorder(n, n[x].right, fuel - 1)

RECURSIVE Closure(_, _)
Closure(n, S) ==
  LET T == (S \cup {n[x].left : x \in S} \cup {n[x].right : x \in S}
              \cup {n[x].parent : x \in S}) \ {Nil}
  IN IF T = S THEN S ELSE Closure(n, T)

RECURSIVE Ascending(_)
Ascending(S) ==
  IF S = {} THEN <<>>
  ELSE LET x == CHOOSE y \in S : \A z \in S : y <= z
       IN <<x>> \o Ascending(S \ {x})

Elems(s) == {s[i] : i \in 1..Len(s)}

Collect(m) ==
  LET n == m.nodes
      pre == Preorder(n, m.root, MaxNodes)
      inPre == Elems(pre) \cup {Nil}
      closed == \A i \in 1..Len(pre) : n[pre[i]].parent \in inPre
                                       /\ n[pre[i]].left \in inPre
                                       /\ n[pre[i]].right \in inPre
      order == IF closed THEN pre
               ELSE pre \o Ascending(Closure(n, Elems(pre)) \ Elems(pre))
      idx == [x \in 0..MaxNodes |->
                IF x = Nil \/ x \notin Elems(order) THEN Nil
                ELSE CHOOSE i \in 1..Len(order) :
                       order[i] = x /\ \A j \in 1..(i - 1) : order[j] # x]
  IN [m EXCEPT
        !.nodes = [i \in NodeIds |->
                     IF i <= Len(order)
                     THEN [n[order[i]] EXCEPT !.left = idx[@], !.right = idx[@],
                                              !.parent = idx[@]]
                     ELSE LeafCell],
        !.root = idx[m.root],
        !.used = 1..Len(order)]

\* ------------------------------------------------------------------- Map

VARIABLES
  nodes,   \* the heap: cell -> Node
  root,    \* Map.root
  size,    \* Map.size
  used,    \* the cells in use
  panic,   \* a nil pointer was dereferenced
  rots,    \* the rotations the method called last has made
  calls,   \* the calls of insertSort and eraseSort it has made, in order
  op,      \* the public method called last
  arg,     \* its arguments [key, val]
  ret,     \* what it returned
  found,   \* Delete: where the key's node stood before the call
  amap,    \* the abstract map the calls so far describe: key -> val or Nil
  rstate,  \* Range's goroutine: none, spawned, running, sending, closed
  rstack,  \* its call stack of ran frames [node, pc], innermost last
  rpair,   \* the Pair it is sending
  out,     \* the Pairs the consumer has received from the channel
  snap     \* the Pairs the map held, in key order, when Range was called

rng == <<rstate, rstack, rpair, out, snap>>

vars == <<nodes, root, size, used, panic, rots, calls, op, arg, ret, found,
          amap,
          rstate, rstack, rpair, out, snap>>

\* The machine a method starts from: no rotation and no fixup call yet.
Machine == [nodes |-> nodes, root |-> root, size |-> size, used |-> used,
            panic |-> panic, rots |-> {}, calls |-> <<>>]

\* The machine a method leaves becomes the state.  (The result is bound by
\* \E over a singleton so that it is computed once.)
Install(m) ==
  \E c \in {IF m.nodes = nodes /\ m.root = root THEN m ELSE Collect(m)} :
     /\ nodes' = c.nodes
     /\ root' = c.root
     /\ size' = c.size
     /\ used' = c.used
     /\ panic' = c.panic
     /\ rots' = c.rots
     /\ calls' = c.calls

NoNode == [kids |-> Nil, atRoot |-> FALSE, black |-> FALSE]

\* No Pair: the zero Pair{nil, nil}.
NoPair == <<Nil, Nil>>

\* What a method returns: the error of Add and Delete ("nil" for none), the
\* bool of Set and Get, the value of Get.
Returned(err, ok, val) == [err |-> err, ok |-> ok, val |-> val]

\* NewMap: an empty map is one sentinel.
Init ==
  /\ nodes = [i \in NodeIds |-> LeafCell]
  /\ root = 1
  /\ size = 0
  /\ used = {1}
  /\ panic = FALSE
  /\ rots = {}
  /\ calls = <<>>
  /\ op = "NewMap"
  /\ arg = [key |-> Nil, val |-> Nil]
  /\ ret = Returned("nil", FALSE, Nil)
  /\ found = NoNode
  /\ amap = [k \in Keys |-> Nil]
  /\ rstate = "none"
  /\ rstack = <<>>
  /\ rpair = NoPair
  /\ out = <<>>
  /\ snap = <<>>

MapLen(m) == m.size

\* A mutant of Add: a key already present keeps its old val.
AddResultKeepsVal(m, key, val) ==
  LET node == findNode(m.nodes, m.root, key)
  IN IF node = Nil THEN [m |-> Panic(m), ret |-> Returned("nil", FALSE, Nil)]
     ELSE IF isLeaf(m.nodes, node)
     THEN [m |-> [insertNode(m, node, key, val) EXCEPT !.size = @ + 1],
           ret |-> Returned("nil", FALSE, Nil)]
     ELSE [m |-> m, ret |-> Returned(ErrNodeAlreadyExists, FALSE, Nil)]

AddResult(m, key, val) ==
  LET node == findNode(m.nodes, m.root, key)
  IN IF node = Nil THEN [m |-> Panic(m), ret |-> Returned("nil", FALSE, Nil)]
     ELSE IF isLeaf(m.nodes, node)
     THEN [m |-> [insertNode(m, node, key, val) EXCEPT !.size = @ + 1],
           ret |-> Returned("nil", FALSE, Nil)]
     ELSE [m |-> [m EXCEPT !.nodes[node].val = val],
           ret |-> Returned(ErrNodeAlreadyExists, FALSE, Nil)]

\* A mutant of Delete: size is lowered before the key is looked up.
DeleteResultCountsFirst(m, key) ==
  LET node == findNode(m.nodes, m.root, key)
      m1 == [m EXCEPT !.size = @ - 1]
  IN IF node = Nil THEN [m |-> Panic(m1), ret |-> Returned("nil", FALSE, Nil)]
     ELSE IF isLeaf(m.nodes, node)
     THEN [m |-> m1, ret |-> Returned(ErrNodeNotExists, FALSE, Nil)]
     ELSE [m |-> eraseNode(m1, node), ret |-> Returned("nil", FALSE, Nil)]

DeleteResult(m, key) ==
  LET node == findNode(m.nodes, m.root, key)
  IN IF node = Nil THEN [m |-> Panic(m), ret |-> Returned("nil", FALSE, Nil)]
     ELSE IF isLeaf(m.nodes, node)
     THEN [m |-> m, ret |-> Returned(ErrNodeNotExists, FALSE, Nil)]
     ELSE [m |-> eraseNode(m, node), ret |-> Returned("nil", FALSE, Nil)]

\* A mutant of Set: a key that is absent is inserted.
SetResultInserts(m, key, val) ==
  LET node == findNode(m.nodes, m.root, key)
  IN IF node = Nil THEN [m |-> Panic(m), ret |-> Returned("nil", FALSE, Nil)]
     ELSE IF isLeaf(m.nodes, node)
     THEN [m |-> insertNode(m, node, key, val),
           ret |-> Returned("nil", FALSE, Nil)]
     ELSE [m |-> [m EXCEPT !.nodes[node].val = val],
           ret |-> Returned("nil", TRUE, Nil)]

SetResult(m, key, val) ==
  LET node == findNode(m.nodes, m.root, key)
  IN IF node = Nil THEN [m |-> Panic(m), ret |-> Returned("nil", FALSE, Nil)]
     ELSE IF isLeaf(m.nodes, node)
     THEN [m |-> m, ret |-> Returned("nil", FALSE, Nil)]
     ELSE [m |-> [m EXCEPT !.nodes[node].val = val],
           ret |-> Returned("nil", TRUE, Nil)]

GetResult(m, key) ==
  LET node == findNode(m.nodes, m.root, key)
  IN IF node = Nil THEN [m |-> Panic(m), ret |-> Returned("nil", FALSE, Nil)]
     ELSE IF isLeaf(m.nodes, node)
     THEN [m |-> m, ret |-> Returned("nil", FALSE, Nil)]
     ELSE [m |-> m, ret |-> Returned("nil", TRUE, m.nodes[node].val)]

\* Whether key has a live node, read off the heap by a plain descent.
Present(key) ==
  LET node == findNode(nodes, root, key)
  IN node # Nil /\ ~isLeaf(nodes, node)

\* Where key's node stands: how many live children it has, whether it is
\* the root, and whether it is BLACK.
Standing(key) ==
  LET node == findNode(nodes, root, key)
  IN IF node = Nil \/ isLeaf(nodes, node) THEN NoNode
     ELSE [kids |-> Cardinality({c \in {nodes[node].left, nodes[node].right} :
                                   c # Nil /\ ~isLeaf(nodes, c)}),
           atRoot |-> node = root,
           black |-> nodes[node].color = BLACK]

Add(key, val) ==
  /\ ~panic
  /\ Present(key) \/ size < MaxSize
  /\ \E r \in {AddResult(Machine, key, val)} : Install(r.m) /\ ret' = r.ret
  /\ op' = "Add"
  /\ arg' = [key |-> key, val |-> val]
  /\ found' = NoNode
  /\ amap' = [amap EXCEPT ![key] = val]
  /\ UNCHANGED rng

Delete(key) ==
  /\ ~panic
  /\ \E r \in {DeleteResult(Machine, key)} : Install(r.m) /\ ret' = r.ret
  /\ op' = "Delete"
  /\ arg' = [key |-> key, val |-> Nil]
  /\ found' = Standing(key)
  /\ amap' = [amap EXCEPT ![key] = Nil]
  /\ UNCHANGED rng

Set(key, val) ==
  /\ ~panic
  /\ \E r \in {SetResult(Machine, key, val)} : Install(r.m) /\ ret' = r.ret
  /\ op' = "Set"
  /\ arg' = [key |-> key, val |-> val]
  /\ found' = NoNode
  /\ amap' = IF amap[key] = Nil THEN amap ELSE [amap EXCEPT ![key] = val]
  /\ UNCHANGED rng

Get(key) ==
  /\ ~panic
  /\ \E r \in {GetResult(Machine, key)} : Install(r.m) /\ ret' = r.ret
  /\ op' = "Get"
  /\ arg' = [key |-> key, val |-> Nil]
  /\ found' = NoNode
  /\ amap' = amap
  /\ UNCHANGED rng

\* The calls that write to the map, with the values of the test: i+1 is
\* stored under key i.  (SpecVal has all four methods and two values.)
Next ==
  \/ \E key \in Keys : Add(key, key + 1)
  \/ \E key \in Keys : Delete(key)
  \/ \E key \in Keys : Set(key, key + 1)

Spec == Init /\ [][Next]_vars

\* A client of all four methods that stores either of two values under a
\* few keys.
NextVal ==
  \/ \E key \in ValKeys, val \in Vals : Add(key, val)
  \/ \E key \in ValKeys : Delete(key)
  \/ \E key \in ValKeys, val \in Vals : Set(key, val)
  \/ \E key \in ValKeys : Get(key)

SpecVal == Init /\ [][NextVal]_vars

\* ----------------------------------------------------------------- Range

Frame(node, pc) == [node |-> node, pc |-> pc]

\* ran: the goroutine runs from the top frame of stack until it stands at
\* the send of a Pair or has returned from the outermost ran.  A frame is
\* at "enter" (the isLeaf test), "send" (ch <- Pair) or "exit" (back from
\* ran(node.right)).
RECURSIVE ran(_, _)
ran(n, stack) ==
  IF stack = <<>> THEN [stack |-> stack, at |-> "return", pair |-> NoPair]
  ELSE
  LET f == stack[Len(stack)]
      rest == SubSeq(stack, 1, Len(stack) - 1)
  IN IF f.pc = "enter"
     THEN IF f.node = Nil
          THEN [stack |-> stack, at |-> "panic", pair |-> NoPair]
          ELSE IF isLeaf(n, f.node) THEN ran(n, rest)
          ELSE ran(n, rest \o <<Frame(f.node, "send"),
                                 Frame(n[f.node].left, "enter")>>)
     ELSE IF f.pc = "send"
     THEN [stack |-> stack, at |-> "send",
           pair |-> <<n[f.node].key, n[f.node].val>>]
     ELSE ran(n, rest)

\* The Pairs of the live nodes below node, in in-order.
RECURSIVE PairsBelow(_, _, _)
PairsBelow(n, node, fuel) ==
  IF node = Nil \/ fuel = 0 THEN <<>>
  ELSE IF isLeaf(n, node) THEN <<>>
  ELSE PairsBelow(n, n[node].left, fuel - 1)
         \o <<<<n[node].key, n[node].val>>>>
         \o PairsBelow(n, n[node].right, fuel - 1)

\* What the map holds: its Pairs in in-order.
Contents(m) == PairsBelow(m.nodes, m.root, MaxNodes)

\* Range(): make the channel, start the goroutine, return the channel.
RangeCall ==
  /\ ~panic
  /\ rstate = "none"
  /\ rstate' = "spawned"
  /\ rstack' = <<>>
  /\ rpair' = NoPair
  /\ out' = <<>>
  /\ snap' = Contents(Machine)
  /\ UNCHANGED <<nodes, root, size, used, panic, op, arg, ret, found, rots, calls,
                 amap>>

\* A mutant of the goroutine over a buffered channel, make(chan Pair, 1):
\* a send completes into the buffer and the goroutine goes on unreceived.
ProduceBuffered ==
  /\ ~panic
  /\ rstate \in {"spawned", "running", "sending"}
  /\ \E r \in {ran(nodes,
                   IF rstate = "spawned" THEN <<Frame(root, "enter")>>
                   ELSE IF rstate = "sending"
                   THEN [rstack EXCEPT ![Len(rstack)] = Frame(@.node, "exit")]
                          \o <<Frame(nodes[rstack[Len(rstack)].node].right,
                                     "enter")>>
                   ELSE rstack)} :
       /\ rstack' = r.stack
       /\ rpair' = r.pair
       /\ rstate' = IF r.at = "send" THEN "sending" ELSE "closed"
       /\ panic' = (r.at = "panic")
  /\ UNCHANGED <<nodes, root, size, used, op, arg, ret, found, rots, calls,
                 amap, out,
                 snap>>

\* The goroutine runs: m.ran(m.root, ch) from the start, or on from the
\* send it was released from, up to its next send; when ran returns it
\* closes the channel.
Produce ==
  /\ ~panic
  /\ rstate \in {"spawned", "running"}
  /\ \E r \in {ran(nodes, IF rstate = "spawned" THEN <<Frame(root, "enter")>>
                          ELSE rstack)} :
       /\ rstack' = r.stack
       /\ rpair' = r.pair
       /\ rstate' = IF r.at = "send" THEN "sending" ELSE "closed"
       /\ panic' = (r.at = "panic")
  /\ UNCHANGED <<nodes, root, size, used, op, arg, ret, found, rots, calls,
                 amap, out,
                 snap>>

\* A mutant of the receive: the goroutine goes on to ran(node.left) again.
ReceiveThenLeft ==
  /\ ~panic
  /\ rstate = "sending"
  /\ out' = Append(out, rpair)
  /\ rstack' = [rstack EXCEPT ![Len(rstack)] =
                  Frame(@.node, "exit")]
                \o <<Frame(nodes[rstack[Len(rstack)].node].left, "enter")>>
  /\ rpair' = NoPair
  /\ rstate' = "running"
  /\ UNCHANGED <<nodes, root, size, used, panic, op, arg, ret, found, rots, calls,
                 amap,
                 snap>>

\* The consumer receives the Pair on the unbuffered channel; the goroutine
\* is released and goes on to ran(node.right).
Receive ==
  /\ ~panic
  /\ rstate = "sending"
  /\ out' = Append(out, rpair)
  /\ rstack' = [rstack EXCEPT ![Len(rstack)] =
                  Frame(@.node, "exit")]
                \o <<Frame(nodes[rstack[Len(rstack)].node].right, "enter")>>
  /\ rpair' = NoPair
  /\ rstate' = "running"
  /\ UNCHANGED <<nodes, root, size, used, panic, op, arg, ret, found, rots, calls,
                 amap,
                 snap>>

\* The consumer's for-range loop finds the channel closed and ends.
LoopExit ==
  /\ ~panic
  /\ rstate = "closed"
  /\ rstate' = "none"
  /\ rstack' = <<>>
  /\ rpair' = NoPair
  /\ out' = <<>>
  /\ snap' = <<>>
  /\ UNCHANGED <<nodes, root, size, used, panic, op, arg, ret, found, rots, calls,
                 amap>>

\* A client that calls Range between its other calls and drains the
\* channel before it calls the map again.
NextRange ==
  \/ rstate = "none" /\ \E key \in ValKeys, val \in Vals : Add(key, val)
  \/ rstate = "none" /\ \E key \in ValKeys : Delete(key)
  \/ rstate = "none" /\ \E key \in ValKeys, val \in Vals : Set(key, val)
  \/ RangeCall
  \/ Produce
  \/ Receive
  \/ LoopExit

SpecRange == Init /\ [][NextRange]_vars

\* The cells reachable from the cells S by left and right.
RECURSIVE Below(_, _)
Below(n, S) ==
  LET T == (S \cup {n[x].left : x \in S} \cup {n[x].right : x \in S}) \ {Nil}
  IN IF T = S THEN S ELSE Below(n, T)

\* The renumbering of Collect for a heap the goroutine also points into.
\* ran reads isLeaf, key, val, left and right of the node of a frame that
\* has not reached its exit, and of the nodes below it: those cells stay
\* allocated although the tree may have let go of them, and the frames
\* follow their cells to the new addresses.  What ran never reads (the
\* node of a frame at its exit, the parent and color of a cell the tree
\* has let go of) is cleared.
CollectKeeping(m, stack) ==
  LET n == m.nodes
      pre == Preorder(n, m.root, MaxNodes)
      held == {stack[i].node : i \in {j \in 1..Len(stack) :
                                        stack[j].pc # "exit"}} \ {Nil}
      order == pre \o Ascending(Below(n, held) \ Elems(pre))
      idx == [x \in 0..MaxNodes |->
                IF x = Nil \/ x \notin Elems(order) THEN Nil
                ELSE CHOOSE i \in 1..Len(order) :
                       order[i] = x /\ \A j \in 1..(i - 1) : order[j] # x]
  IN [m |-> [m EXCEPT
               !.nodes = [i \in NodeIds |->
                            IF i <= Len(pre)
                            THEN [n[order[i]] EXCEPT !.left = idx[@],
                                                     !.right = idx[@],
                                                     !.parent = idx[@]]
                            ELSE IF i <= Len(order)
                            THEN [n[order[i]] EXCEPT !.left = idx[@],
                                                     !.right = idx[@],
                                                     !.parent = Nil,
                                                     !.color = BLACK]
                            ELSE LeafCell],
               !.root = idx[m.root],
               !.used = 1..Len(order)],
      stack |-> [i \in 1..Len(stack) |->
                   IF stack[i].pc = "exit" THEN Frame(Nil, "exit")
                   ELSE Frame(idx[stack[i].node], stack[i].pc)]]

\* A method called while the goroutine stands blocked in its send (the Pair
\* not yet received): the call races with nothing, and the goroutine will
\* go on from its frames over the tree as the call leaves it.
InstallInRange(m) ==
  \E c \in {CollectKeeping(m, rstack)} :
     /\ nodes' = c.m.nodes
     /\ root' = c.m.root
     /\ size' = c.m.size
     /\ used' = c.m.used
     /\ panic' = c.m.panic
     /\ rots' = c.m.rots
     /\ calls' = c.m.calls
     /\ rstack' = c.stack

AddInRange(key, val) ==
  /\ ~panic
  /\ rstate = "sending"
  /\ Present(key) \/ size < MaxSize
  /\ \E r \in {AddResult(Machine, key, val)} :
       InstallInRange(r.m) /\ ret' = r.ret
  /\ op' = "Add"
  /\ arg' = [key |-> key, val |-> val]
  /\ found' = NoNode
  /\ amap' = [amap EXCEPT ![key] = val]
  /\ UNCHANGED <<rstate, rpair, out, snap>>

DeleteInRange(key) ==
  /\ ~panic
  /\ rstate = "sending"
  /\ \E r \in {DeleteResult(Machine, key)} :
       InstallInRange(r.m) /\ ret' = r.ret
  /\ op' = "Delete"
  /\ arg' = [key |-> key, val |-> Nil]
  /\ found' = Standing(key)
  /\ amap' = [amap EXCEPT ![key] = Nil]
  /\ UNCHANGED <<rstate, rpair, out, snap>>

SetInRange(key, val) ==
  /\ ~panic
  /\ rstate = "sending"
  /\ \E r \in {SetResult(Machine, key, val)} :
       InstallInRange(r.m) /\ ret' = r.ret
  /\ op' = "Set"
  /\ arg' = [key |-> key, val |-> val]
  /\ found' = NoNode
  /\ amap' = IF amap[key] = Nil THEN amap ELSE [amap EXCEPT ![key] = val]
  /\ UNCHANGED <<rstate, rpair, out, snap>>

\* The map still holds what it held when Range was called.
Untouched == Contents(Machine) = snap

\* A consumer that also calls Add, Delete and Set between two receives.
\* (It does so until one of these calls has changed what the map holds:
\* that bounds the calls of one traversal.)
NextInterleaved ==
  \/ rstate = "none" /\ \E key \in ValKeys, val \in Vals : Add(key, val)
  \/ rstate = "none" /\ \E key \in ValKeys : Delete(key)
  \/ rstate = "none" /\ \E key \in ValKeys, val \in Vals : Set(key, val)
  \/ Untouched /\ \E key \in ValKeys, val \in Vals : AddInRange(key, val)
  \/ Untouched /\ \E key \in ValKeys : DeleteInRange(key)
  \/ Untouched /\ \E key \in ValKeys, val \in Vals : SetInRange(key, val)
  \/ RangeCall
  \/ Produce
  \/ Receive
  \/ LoopExit

SpecInterleaved == Init /\ [][NextInterleaved]_vars

\* The scheduler runs a goroutine that can run: the producer is not starved.
\* Nothing obliges the consumer to receive.
SpecScheduled == SpecRange /\ WF_vars(Produce)

\* A client of all five public methods: it adds, deletes, sets and gets
\* the keys of the test, and between those calls it ranges over the map,
\* draining the channel before it calls the map again.
NextAll ==
  \/ rstate = "none" /\ \E key \in Keys : Add(key, key + 1)
  \/ rstate = "none" /\ \E key \in Keys : Delete(key)
  \/ rstate = "none" /\ \E key \in Keys : Set(key, key + 1)
  \/ rstate = "none" /\ \E key \in Keys : Get(key)
  \/ RangeCall
  \/ Produce
  \/ Receive
  \/ LoopExit

SpecAll == Init /\ [][NextAll]_vars

\* ---------------------------------------------------------- observations

\* The cells reachable from root by left and right.
Reach == Elems(Preorder(nodes, root, MaxNodes))

LiveNodes == {x \in Reach : nodes[x].left # Nil \/ nodes[x].right # Nil}

Sentinels == Reach \ LiveNodes

Kids(x) == {nodes[x].left, nodes[x].right} \ {Nil}

\* The keys of the live nodes in in-order.
RECURSIVE InOrder(_, _)
InOrder(x, fuel) ==
  IF x = Nil \/ fuel = 0 THEN <<>>
  ELSE IF nodes[x].left = Nil /\ nodes[x].right = Nil THEN <<>>
  ELSE InOrder(nodes[x].left, fuel - 1) \o <<x>>
         \o InOrder(nodes[x].right, fuel - 1)

InOrderKeys == [i \in 1..Len(InOrder(root, MaxNodes)) |->
                  nodes[InOrder(root, MaxNodes)[i]].key]

\* The number of live nodes on the longest downward path from x to a
\* sentinel.
RECURSIVE Height(_, _)
Height(x, fuel) ==
  IF x = Nil \/ fuel = 0 THEN 0
  ELSE IF nodes[x].left = Nil /\ nodes[x].right = Nil THEN 0
  ELSE LET l == Height(nodes[x].left, fuel - 1)
           r == Height(nodes[x].right, fuel - 1)
       IN 1 + (IF l >= r THEN l ELSE r)

\* The numbers of BLACK nodes met on the downward paths from x to a
\* sentinel, x excluded and the sentinel included.
RECURSIVE BlackCounts(_, _)
BlackCounts(x, fuel) ==
  IF fuel = 0 THEN {}
  ELSE IF Kids(x) = {} THEN {0}
  ELSE UNION {{b + (IF nodes[c].color = BLACK THEN 1 ELSE 0) :
                 b \in BlackCounts(c, fuel - 1)} : c \in Kids(x)}

\* ---------------------------------------------------------------- claims

\* C1: after any sequence of Add, Delete and Set calls, Len() is the number
\* of live nodes reachable from root, the number of keys present.
C1_LenIsLiveCount ==
  MapLen(Machine) = Cardinality(LiveNodes)
  /\ MapLen(Machine) = Cardinality({k \in Keys : amap[k] # Nil})

\* C2: no RED live node reachable from root has a RED child.
C2_NoRedRed ==
  \A x \in LiveNodes :
    nodes[x].color = RED => \A c \in Kids(x) : nodes[c].color = BLACK

\* C2 witness: a Delete has run its fixup and left a RED node below a
\* BLACK one in a map of at least four keys.
C2_Witness ==
  /\ op = "Delete" /\ ret.err = "nil"
  /\ Cardinality(LiveNodes) >= 4
  /\ \E x \in LiveNodes : nodes[x].color = RED

\* C3: from every reachable node all downward paths to a sentinel hold the
\* same number of BLACK nodes.
C3_EqualBlackHeight ==
  \A x \in Reach : Cardinality(BlackCounts(x, MaxNodes)) = 1

\* C3 witness: a BLACK node with no live child, not the root, was spliced
\* out (so the fixup ran on a sentinel) and at least three keys remain.
C3_Witness ==
  /\ op = "Delete" /\ ret.err = "nil"
  /\ found.kids = 0 /\ found.black /\ ~found.atRoot
  /\ Cardinality(LiveNodes) >= 3

\* C4: the in-order sequence of live keys is strictly increasing.
C4_InOrderAscending ==
  \A i \in 1..(Len(InOrderKeys) - 1) : InOrderKeys[i] < InOrderKeys[i + 1]

\* C4 witness: a node with two live children was deleted (the predecessor's
\* key was copied into it) and at least three keys remain.
C4_Witness ==
  /\ op = "Delete" /\ ret.err = "nil" /\ found.kids = 2
  /\ Len(InOrderKeys) >= 3

\* C5: Map.root is BLACK, every reachable sentinel is BLACK, and root is the
\* one reachable node whose parent is nil.
C5_RootBlack ==
  /\ root # Nil
  /\ nodes[root].color = BLACK
  /\ \A x \in Sentinels : nodes[x].color = BLACK
  /\ \A x \in Reach : (nodes[x].parent = Nil) <=> (x = root)

\* C5 witness: the root itself was deleted while it had two live children.
C5_Witness ==
  /\ op = "Delete" /\ ret.err = "nil" /\ found.atRoot /\ found.kids = 2
  /\ Cardinality(LiveNodes) >= 2

\* The abstract answer to Get(k): the value stored last under k while k
\* has been present, or absence.
AbstractGet(k) ==
  IF amap[k] # Nil THEN Returned("nil", TRUE, amap[k])
  ELSE Returned("nil", FALSE, Nil)

\* C6: the map refines the abstract key -> value map: for every key k,
\* Get(k) returns (true, v) with v the value stored last under k if k is
\* present in the abstract map, and (false, nil) otherwise.
C6_Refinement ==
  \A k \in Keys : GetResult(Machine, k).ret = AbstractGet(k)

\* C6 witness: a node with two live children was deleted and the two keys
\* left carry different values.
C6_Witness ==
  /\ op = "Delete" /\ ret.err = "nil" /\ found.kids = 2
  /\ \E j, k \in Keys : amap[j] = 1 /\ amap[k] = 2

\* C8: Add(k, v) returns ErrNodeAlreadyExists exactly when k is present
\* before the call, and nil otherwise; when k is present the call changes
\* nothing but the val of k's node, which becomes v: shape, colours, root
\* and Len() stay, and one node holds k.
C8_AddExisting ==
  [][op' = "Add" =>
       LET k == arg'.key
           v == arg'.val
       IN /\ (ret'.err = ErrNodeAlreadyExists) <=> (amap[k] # Nil)
          /\ (ret'.err = "nil") <=> (amap[k] = Nil)
          /\ amap[k] # Nil =>
               /\ nodes' = [x \in NodeIds |->
                              IF x \in LiveNodes /\ nodes[x].key = k
                              THEN [nodes[x] EXCEPT !.val = v]
                              ELSE nodes[x]]
               /\ root' = root
               /\ size' = size
               /\ Cardinality({x \in LiveNodes : nodes[x].key = k}) = 1
               /\ ~panic']_vars

\* C8 witness: Add has met its key among three and returned the error.
C8_Witness ==
  /\ op = "Add" /\ ret.err = ErrNodeAlreadyExists
  /\ Cardinality(LiveNodes) = 3
  /\ arg.val = 2

\* C9: Delete(K) of a present key K returns nil; then Get(K) returns
\* (false, nil) and a Delete(K) that follows returns ErrNodeNotExists.
C9_DeleteThenLookup ==
  [][(op' = "Delete" /\ amap[arg'.key] # Nil) =>
       /\ ret'.err = "nil"
       /\ ~panic'
       /\ GetResult(Machine', arg'.key).ret = Returned("nil", FALSE, Nil)
       /\ DeleteResult(Machine', arg'.key).ret.err = ErrNodeNotExists]_vars

\* C9 witness: the key deleted stood at the root with two live children.
C9_Witness ==
  /\ op = "Delete" /\ ret.err = "nil"
  /\ found.kids = 2 /\ found.atRoot
  /\ amap[arg.key] = Nil

\* C10: Delete(k) of an absent key returns ErrNodeNotExists and leaves
\* root, shape, colours, keys, values and size as they were.
C10_DeleteAbsent ==
  [][(op' = "Delete" /\ amap[arg'.key] = Nil) =>
       /\ ret'.err = ErrNodeNotExists
       /\ nodes' = nodes
       /\ root' = root
       /\ size' = size
       /\ used' = used
       /\ panic' = panic]_vars

\* C10 witness: Delete has missed its key in a map of four keys.
C10_Witness ==
  /\ op = "Delete" /\ ret.err = ErrNodeNotExists
  /\ Cardinality(LiveNodes) = 4

\* The abstract map as Pairs in ascending key order, from key k on.
RECURSIVE PairsFrom(_)
PairsFrom(k) ==
  IF k > MaxKey THEN <<>>
  ELSE (IF amap[k] # Nil THEN <<<<k, amap[k]>>>> ELSE <<>>) \o PairsFrom(k + 1)

\* C7: a Range() drained while the map is not mutated delivers one Pair
\* per key present, in ascending order, each with its latest value, no
\* Pair of a sentinel, and then the channel is closed.
C7_RangeDelivers ==
  /\ Len(out) <= Len(PairsFrom(1))
  /\ out = SubSeq(PairsFrom(1), 1, Len(out))
  /\ rstate = "sending" =>
       /\ Len(out) < Len(PairsFrom(1))
       /\ rpair = PairsFrom(1)[Len(out) + 1]
  /\ rstate = "closed" => out = PairsFrom(1)
  /\ ~panic

\* C7 witness: after a Delete the channel has delivered two Pairs with
\* different values and is closed.
C7_Witness ==
  /\ rstate = "closed"
  /\ op = "Delete" /\ ret.err = "nil"
  /\ Len(out) = 2
  /\ out[1][2] # out[2][2]

\* C11: Set(k, v) returns true exactly when k is present before the call;
\* on a hit nothing changes but the val of k's node, which becomes v; on a
\* miss it returns false, the whole map state stays as it was and Get(k)
\* still returns (false, nil).
C11_SetFrame ==
  [][op' = "Set" =>
       LET k == arg'.key
           v == arg'.val
       IN /\ ret'.ok <=> (amap[k] # Nil)
          /\ ret'.ok <=> Present(k)
          /\ root' = root /\ size' = size /\ used' = used /\ ~panic'
          /\ ret'.ok =>
               nodes' = [x \in NodeIds |->
                           IF x \in LiveNodes /\ nodes[x].key = k
                           THEN [nodes[x] EXCEPT !.val = v]
                           ELSE nodes[x]]
          /\ ~ret'.ok =>
               /\ nodes' = nodes
               /\ GetResult(Machine', k).ret = Returned("nil", FALSE, Nil)]_vars

\* C11 witness: Set has overwritten the val of one key among three, and
\* another key holds the other val.
C11_Witness ==
  /\ op = "Set" /\ ret.ok /\ arg.val = 2
  /\ Cardinality(LiveNodes) = 3
  /\ \E k \in Keys : amap[k] = 1

\* C12: no public method ever dereferences a nil pointer: in insertSort
\* the parent and grandparent read by getUncle and getGrandParent exist, in
\* eraseSort the parent read by getSibling and isLeft exists and the
\* sibling whose children are read is a live node.
C12_NoNilDereference == ~panic

\* C12 witness: a Delete has spliced out a BLACK node below the root of a
\* map of six keys, so eraseSort has read the sibling and its children.
C12_Witness ==
  /\ op = "Delete" /\ ret.err = "nil"
  /\ found.black /\ ~found.atRoot /\ found.kids = 0
  /\ Cardinality(LiveNodes) = MaxKey - 1

\* C13: a tree of n live nodes has height h <= 2*log2(n+1), that is,
\* 2^h <= (n+1)^2.
C13_HeightBound ==
  2 ^ Height(root, MaxNodes)
    <= (Cardinality(LiveNodes) + 1) * (Cardinality(LiveNodes) + 1)

\* C13 witness: the least key was added last to a map of six keys or more
\* and lies four levels deep.
C13_Witness ==
  /\ op = "Add" /\ ret.err = "nil" /\ arg.key = 1
  /\ Cardinality(LiveNodes) >= 6
  /\ Height(root, MaxNodes) = 4

\* C14: whatever Add, Delete and Set calls are made between two receives,
\* the Pairs delivered on the channel are the in-order contents the map had
\* when Range was called: none skipped, none twice, and at close all.
C14_RangeSnapshot ==
  /\ Len(out) <= Len(snap)
  /\ out = SubSeq(snap, 1, Len(out))
  /\ rstate = "sending" =>
       /\ Len(out) < Len(snap)
       /\ rpair = snap[Len(out) + 1]
  /\ rstate = "closed" => out = snap

\* C15: while the consumer does not receive, the producer stays blocked in
\* its send with the same Pair, reaching neither close(ch) nor its end; if
\* the consumer keeps receiving, the producer closes the channel.
C15_BlockedUntilReceived ==
  /\ [][(rstate = "sending" /\ out' = out) =>
          (rstate' = "sending" /\ rpair' = rpair)]_vars
  /\ WF_vars(Receive) => ((rstate = "spawned") ~> (rstate = "closed"))

\* C15 witness: the producer stands in its send of the second of three
\* Pairs.
C15_Witness ==
  /\ rstate = "sending"
  /\ Len(out) = 1
  /\ Len(snap) = 3

\* C16: rotateLeft is only called on a node whose right child is a live
\* node, rotateRight only on a node whose left child is a live node.
C16_RotationsOnLiveChild == \A r \in rots : r.live

\* C16 witness: a Delete has rotated to the right and to the left (a RED
\* near child of the sibling: lines 286-303).
C16_Witness ==
  /\ op = "Delete" /\ ret.err = "nil"
  /\ \E r \in rots : r.dir = "left"
  /\ \E r \in rots : r.dir = "right"

\* C17: the pointers are well formed after every public method: a node
\* reachable from root has two non-nil children (a live node) or two nil
\* children (a sentinel), every child of a reachable node, sentinels
\* included, points back to it as its parent, and root.parent is nil.
C17_WellFormed ==
  /\ root # Nil
  /\ nodes[root].parent = Nil
  /\ \A x \in Reach : (nodes[x].left = Nil) <=> (nodes[x].right = Nil)
  /\ \A x \in Reach : \A c \in Kids(x) : nodes[c].parent = x
  /\ \A x \in Reach : nodes[x].left # Nil => nodes[x].left # nodes[x].right

\* C17 witness: a Delete has put a sentinel in the place of a node spliced
\* out below the root, and the sentinel points back to its new parent.
C17_Witness ==
  /\ op = "Delete" /\ ret.err = "nil"
  /\ found.kids = 0 /\ ~found.atRoot
  /\ Cardinality(LiveNodes) >= 3
  /\ \A x \in Sentinels : nodes[x].parent \in LiveNodes

\* C18: for a node with two live children getLeftMostChild returns the
\* in-order predecessor, a live node whose right child is a sentinel; so
\* eraseNode copies the predecessor's key and val into the node, which keeps
\* its place and colour, and its one recursive call splices the predecessor
\* out without recursing again.
C18_PredecessorSplice ==
  \A k \in Keys :
    Standing(k).kids = 2 =>
      LET node == findNode(nodes, root, k)
          pred == getLeftMostChild(nodes, node)
          copied == [Machine EXCEPT !.nodes[node].key = nodes[pred].key,
                                    !.nodes[node].val = nodes[pred].val]
      IN /\ pred \in LiveNodes
         /\ pred # node
         /\ isLeaf(nodes, nodes[pred].right)
         /\ nodes[pred].key < k
         /\ \A j \in Keys : (j < k /\ Present(j)) => j <= nodes[pred].key
         /\ eraseNode(Machine, node)
              = Splice(copied, pred,
                       IF isLeaf(nodes, nodes[pred].left)
                       THEN nodes[pred].right ELSE nodes[pred].left)

\* C18 witness: a node with two live children was deleted from below the
\* root, and a key stands on a node with two live children whose
\* predecessor is not its left child.
C18_Witness ==
  /\ op = "Delete" /\ ret.err = "nil"
  /\ found.kids = 2 /\ ~found.atRoot
  /\ \E k \in Keys :
       /\ Standing(k).kids = 2
       /\ getLeftMostChild(nodes, findNode(nodes, root, k))
            # nodes[findNode(nodes, root, k)].left

\* The branches of insertSort and eraseSort that end in a recursive call.
Recursing == {"redUncle", "redSibling", "blackNephews"}

\* C19: every Add and every Delete terminates.  The fixup calls of one
\* method form one chain in which only the last call does not recurse;
\* insertSort recurses in the red-uncle case alone, on the grandparent (two
\* levels up); eraseSort recurses on the parent (one level up) when the
\* BLACK sibling has two BLACK children, or, after the red-sibling rotation,
\* on the same node (now one level down), and that call is never the
\* red-sibling case again: it ends the fixup or moves to the RED parent,
\* where the fixup ends.  So the chain is no longer than the node is deep.
C19_FixupTerminates ==
  /\ \A i \in 1..Len(calls) :
       (i < Len(calls)) <=> (calls[i].branch \in Recursing)
  /\ Len(calls) <= (IF calls = <<>> THEN 0 ELSE calls[1].depth + 2)
  /\ \A i \in 1..(Len(calls) - 1) :
       /\ calls[i + 1].fn = calls[i].fn
       /\ calls[i].branch = "redUncle" =>
            calls[i + 1].depth = calls[i].depth - 2
       /\ calls[i].branch = "blackNephews" =>
            calls[i + 1].depth = calls[i].depth - 1
       /\ calls[i].branch = "redSibling" =>
            /\ calls[i + 1].depth = calls[i].depth + 1
            /\ calls[i + 1].branch \in {"blackNephews", "redNephew"}
            /\ calls[i + 1].branch = "blackNephews" =>
                 calls[i + 2].branch = "red"
  /\ op = "Add" => \A i \in 1..Len(calls) : calls[i].fn = "insertSort"
  /\ op = "Delete" => \A i \in 1..Len(calls) : calls[i].fn = "eraseSort"

\* C19 witness: a Delete whose fixup met a RED sibling, rotated, found the
\* new BLACK sibling with two BLACK children and ended at the RED parent.
C19_Witness ==
  /\ op = "Delete" /\ ret.err = "nil"
  /\ Len(calls) = 3
  /\ calls[1].branch = "redSibling"
  /\ calls[2].branch = "blackNephews"
  /\ calls[3].branch = "red"

====
